---- MODULE Spec2Model ----
(***************************************************************************)
(* A model of jest-csl's lib.js: the test-corpus loader (mergeUnits,       *)
(* readTestUnits), the citeproc "sys" adapter (retrieveLocale,             *)
(* retrieveItem, retrieveStyleModule), the TestEngine's abbreviation       *)
(* store (setAbbreviations, addAbbreviation, produceSequence), the cache   *)
(* of reference repositories (ensureCachedRepos, cloneOrPull) and the      *)
(* normalisation of test cases; and of the jest bridge (jestCSL,           *)
(* jestTestCase).                                                          *)
(*                                                                         *)
(* A JavaScript Map is a sequence of <<key, value>> pairs in insertion     *)
(* order; a string whose characters matter is a sequence of one-character  *)
(* strings; a JavaScript array is a sequence.                              *)
(***************************************************************************)
EXTENDS Integers, Sequences, FiniteSets, TLC

(***************************************************************************)
(* State.                                                                  *)
(*  readTestUnits: ldPc is its position, units its accumulator, unitMap the Map  *)
(*  of the mergeUnits call in progress.  seenLabels, occ, fresh, sole and  *)
(*  keeps record the documents read so far (history only): the labels in   *)
(*  the order of their first appearance, how often each occurred (up to    *)
(*  2), the labels that occur in the latest document only, the unit of a   *)
(*  label that occurred once, and whether the second unit of a label left  *)
(*  the label's unit equal to one of the two units given.                  *)
(*  mergeUnits called on its own: argA, argB, out, mgPc.                   *)
(*  The adapter citeprocSys builds: sysCitations and jurisdictionDirs are  *)
(*  what its closures hold; givenDirs is the directory list as the caller  *)
(*  supplied it (history); sysLast, sysId, files, searched, sysRet and     *)
(*  sysRaised describe the latest callback: its name, the file name it     *)
(*  asked for, what each directory held, the directories read in order,    *)
(*  the value returned and whether it threw; sysCalls counts calls.        *)
(*  The TestEngine: abbreviations and sysAbbreviationCache are its fields, *)
(*  the latter "null" or the name of an object of heap; heap holds the     *)
(*  content of the objects a cache reference can point to; tePc is the     *)
(*  position inside produceSequence, teCaller who called it, lastSets its  *)
(*  abbreviations argument, teClusters its clusters argument (history),    *)
(*  engineInput what rebuildProcessorState got,                            *)
(*  teOut what produceSequence returns; staleJurs and staleCache record    *)
(*  what the store and the cache held before the latest reset (history).   *)
(*  ensureCachedRepos: rcStep is, per source, the step of cloneOrPull its  *)
(*  promise chain stands before; rcPull is shouldPull; rcCopy the state of *)
(*  each local copy and rcCopy0 its state at the call (history); rcLog the *)
(*  operations performed, in order, with their outcome (history);          *)
(*  rcResult the state of the promise ensureCachedRepos returned.          *)
(*  insertMissingPageLabels called on its own: lbTest, lbOut, lbPc.        *)
(*  jestCSL(args): brPc is its position; brJest whether jest is defined;   *)
(*  brIt the properties of jest's it; brStyle whether args.csl reads to a  *)
(*  non-empty style; brSuites is args.suites; brFiles what each file name  *)
(*  holds; brUnits the corpus; brLoaded whether readTestUnits has returned *)
(*  (history); brDescribed the number of units described; brRegistry the   *)
(*  tests registered with jest, in order; brRan the tests jest has run;    *)
(*  brError the message of _bail.                                          *)
(***************************************************************************)
VARIABLES ldPc, units, unitMap, seenLabels, occ, fresh, sole, keeps,
          argA, argB, out, mgPc,
          sysCitations, jurisdictionDirs, givenDirs, sysCalls, sysLast, sysId,
          files, searched, sysRet, sysRaised,
          abbreviations, sysAbbreviationCache, heap, tePc, teCaller, lastSets,
          engineInput, teOut, staleJurs, staleCache, teClusters,
          rcStep, rcPull, rcCopy, rcCopy0, rcLog, rcResult,
          lbPc, lbTest, lbOut,
          brPc, brJest, brIt, brStyle, brSuites, brFiles, brUnits, brLoaded,
          brDescribed, brRegistry, brRan, brError

ldVars == <<ldPc, units, unitMap, seenLabels, occ, fresh, sole, keeps>>
mgVars == <<argA, argB, out, mgPc>>
sysVars == <<sysCitations, jurisdictionDirs, givenDirs, sysCalls, sysLast, sysId,
             files, searched, sysRet, sysRaised>>
teVars == <<abbreviations, sysAbbreviationCache, heap, tePc, teCaller, lastSets,
            engineInput, teOut, staleJurs, staleCache, teClusters>>
rcVars == <<rcStep, rcPull, rcCopy, rcCopy0, rcLog, rcResult>>
lbVars == <<lbPc, lbTest, lbOut>>
brVars == <<brPc, brJest, brIt, brStyle, brSuites, brFiles, brUnits, brLoaded,
            brDescribed, brRegistry, brRan, brError>>
vars == <<ldVars, mgVars, sysVars, teVars, rcVars, lbVars, brVars>>

(***************************************************************************)
(* Bounds and input universes.                                             *)
(***************************************************************************)
\* most test cases in one unit of a suite document
MaxTests == 2
\* most calls of retrieveStyleModule on one adapter
MaxCalls == 2
\* most directories the caller supplies as jurisdictionDirs
MaxDirs == 2
\* most abbreviation sets in the abbreviations argument of a render call
MaxSets == 2

Labels == {"X", "Y"}
Names == {"t1", "t2"}
\* a JavaScript string as its characters, and an array of strings
Text(cs) == [chars |-> cs]
TextArray(ts) == [items |-> ts]
\* values of a test's expect: "a" and " b"
Expects == {Text(<<"a">>), Text(<<" ", "b">>)}
TestCase(n, e) == [it |-> n, expect |-> e]
\* t1 comes with either content, so that an override shows; t2 with one
TestCases == {TestCase("t1", Text(<<"a">>)), TestCase("t1", Text(<<" ", "b">>)),
              TestCase("t2", Text(<<" ", "b">>))}
TestSeqs == UNION {[1..n -> TestCases] : n \in 0..MaxTests}
Units == [describe : Labels, tests : TestSeqs]
\* the value of a ghost slot that holds no unit
NoUnit == [describe |-> "none", tests |-> <<>>]

(***************************************************************************)
(* Generic helpers.                                                        *)
(***************************************************************************)
Last(s) == s[Len(s)]
Front(s) == SubSeq(s, 1, Len(s) - 1)
Range(s) == {s[i] : i \in 1..Len(s)}

(***************************************************************************)
(* The JavaScript Map: has / get / set / values, insertion ordered.        *)
(***************************************************************************)
MapKeys(m) == [i \in 1..Len(m) |-> m[i][1]]
MapValues(m) == [i \in 1..Len(m) |-> m[i][2]]
MapHas(m, k) == \E i \in 1..Len(m) : m[i][1] = k
MapGet(m, k) == m[CHOOSE i \in 1..Len(m) : m[i][1] = k][2]

\* a set() that deletes an existing key and re-inserts it at the end
MapSet_moveToEnd(m, k, v) ==
  Append(SelectSeq(m, LAMBDA e : e[1] # k), <<k, v>>)

\* Map.prototype.set: an existing key keeps its position, a new key is appended
MapSet(m, k, v) ==
  IF MapHas(m, k)
    THEN [i \in 1..Len(m) |-> IF m[i][1] = k THEN <<k, v>> ELSE m[i]]
    ELSE Append(m, <<k, v>>)

(***************************************************************************)
(* mergeUnits and its helpers (lib.js 128-163).                            *)
(***************************************************************************)
RECURSIVE AddTestsLoop(_, _)
AddTestsLoop(m, ts) ==
  IF ts = <<>> THEN m
  ELSE AddTestsLoop(MapSet(m, ts[1].it, ts[1]), Tail(ts))

_addTestsToMap(m, u) == AddTestsLoop(m, u.tests)

_mergeUnit(a, b) ==
  [describe |-> a.describe,
   tests |-> MapValues(_addTestsToMap(_addTestsToMap(<<>>, a), b))]

\* a loop body that never looks the label up and always adds a new entry
AddUnitStep_noMerge(m, u) == Append(m, <<u.describe, u>>)

\* a loop body that re-inserts a merged unit at the end of the Map
AddUnitStep_moveMerged(m, u) ==
  IF MapHas(m, u.describe)
    THEN MapSet_moveToEnd(m, u.describe, _mergeUnit(MapGet(m, u.describe), u))
    ELSE MapSet(m, u.describe, u)

\* the body of the loop of _addUnitsToMap
AddUnitStep(m, u) ==
  IF MapHas(m, u.describe)
    THEN MapSet(m, u.describe, _mergeUnit(MapGet(m, u.describe), u))
    ELSE MapSet(m, u.describe, u)

RECURSIVE AddUnitsLoop(_, _)
AddUnitsLoop(m, us) ==
  IF us = <<>> THEN m
  ELSE AddUnitsLoop(AddUnitStep(m, us[1]), Tail(us))

\* a document is [isArray, items]: yaml.safeLoad may return a non-array
_addUnitsToMap(m, us) ==
  IF ~us.isArray THEN m ELSE AddUnitsLoop(m, us.items)

Arr(s) == [isArray |-> TRUE, items |-> s]
NotArray == [isArray |-> FALSE, items |-> <<>>]

mergeUnits(unitsA, unitsB) ==
  MapValues(_addUnitsToMap(_addUnitsToMap(<<>>, unitsA), unitsB))

(***************************************************************************)
(* Normalisation of a test case (lib.js 187-217).  A property an object    *)
(* does not have is a field the record does not have; assigning undefined  *)
(* to a property leaves the field out.                                     *)
(***************************************************************************)
RECURSIVE TrimStart(_)
TrimStart(s) ==
  IF s # <<>> /\ s[1] = " " THEN TrimStart(Tail(s)) ELSE s

RECURSIVE TrimEnd(_)
TrimEnd(s) ==
  IF s # <<>> /\ Last(s) = " " THEN TrimEnd(Front(s)) ELSE s

Trim(s) == TrimEnd(TrimStart(s))

\* obj.f is there
Has(obj, f) == f \in DOMAIN obj
\* { ...obj, f: v }
With(obj, f, v) == [x \in DOMAIN obj \cup {f} |-> IF x = f THEN v ELSE obj[x]]
\* Array.isArray and the truth of a string or an array
IsArray(v) == "items" \in DOMAIN v
TruthyText(v) == IsArray(v) \/ v.chars # <<>>
\* String.prototype.trim
TrimText(v) == Text(Trim(v.chars))

\* lines 206-217
stripWhitespace(test) ==
  IF ~Has(test, "expect") THEN test
  ELSE LET expect == IF IsArray(test.expect)
                       THEN TextArray([i \in 1..Len(test.expect.items) |->
                                         TrimText(test.expect.items[i])])
                       ELSE IF TruthyText(test.expect) THEN TrimText(test.expect)
                       ELSE test.expect
       IN With(test, "expect", IF TruthyText(test.expect) THEN expect ELSE test.expect)

\* obj.f is there and is not the empty string
TruthyField(obj, f) == Has(obj, f) /\ obj[f] # ""

\* the inner function of lines 188-192
immut(single) ==
  IF TruthyField(single, "locator") /\ ~TruthyField(single, "label")
    THEN With(single, "label", IF TruthyField(single, "label") THEN single.label ELSE "page")
    ELSE single

\* lines 187-203
insertMissingPageLabels(test) ==
  IF /\ Has(test, "single")
     /\ TruthyField(test.single, "locator")
     /\ ~TruthyField(test.single, "label")
    THEN With(test, "single", immut(test.single))
  ELSE IF Has(test, "sequence")
    THEN With(test, "sequence",
              [i \in 1..Len(test.sequence) |->
                 [j \in 1..Len(test.sequence[i]) |-> immut(test.sequence[i][j])]])
  ELSE test

\* lines 259-264
NormalizeUnit(unit) ==
  [unit EXCEPT !.tests = [i \in 1..Len(unit.tests) |->
                            insertMissingPageLabels(stripWhitespace(unit.tests[i]))]]

(***************************************************************************)
(* readTestUnits (lib.js 253-268), one action per step of its loops.       *)
(***************************************************************************)
Min(a, b) == IF a < b THEN a ELSE b
UnitOf(us, l) == us[CHOOSE i \in 1..Len(us) : us[i].describe = l]
LabelsOf(us) == [i \in 1..Len(us) |-> us[i].describe]

LoaderInit ==
  /\ ldPc = "loop"
  /\ units = <<>>
  /\ unitMap = <<>>
  /\ seenLabels = <<>>
  /\ occ = [l \in Labels |-> 0]
  /\ fresh = {}
  /\ sole = [l \in Labels |-> NoUnit]
  /\ keeps = [l \in Labels |-> TRUE]

LoaderIdle ==
  /\ ldPc = "off"
  /\ units = <<>>
  /\ unitMap = <<>>
  /\ seenLabels = <<>>
  /\ occ = [l \in Labels |-> 0]
  /\ fresh = {}
  /\ sole = [l \in Labels |-> NoUnit]
  /\ keeps = [l \in Labels |-> TRUE]

\* the next suite parses to something that is no array: mergeUnits(units, nxtUnits)
\* runs to its end within the step
ReadSuiteNotArray ==
  /\ ldPc = "loop"
  /\ units' = mergeUnits(Arr(units), NotArray)
  /\ UNCHANGED <<ldPc, unitMap, seenLabels, occ, fresh, sole, keeps>>
  /\ UNCHANGED <<mgVars, sysVars, teVars, rcVars, lbVars, brVars>>

\* the next suite parses to an array: mergeUnits has added unitsA to its new Map
\* and stands before the loop over nxtUnits
ReadSuiteArray ==
  /\ ldPc = "loop"
  /\ unitMap' = _addUnitsToMap(<<>>, Arr(units))
  /\ ldPc' = "merging"
  /\ fresh' = {}
  /\ UNCHANGED <<units, seenLabels, occ, sole, keeps>>
  /\ UNCHANGED <<mgVars, sysVars, teVars, rcVars, lbVars, brVars>>

\* one turn of the loop of _addUnitsToMap(unitMap, nxtUnits): u is the document's next unit
AddNextUnit(u) ==
  LET l == u.describe
      m2 == AddUnitStep(unitMap, u)
  IN /\ ldPc = "merging"
     /\ unitMap' = m2
     /\ seenLabels' = IF l \in Range(seenLabels) THEN seenLabels
                      ELSE Append(seenLabels, l)
     /\ occ' = [occ EXCEPT ![l] = Min(occ[l] + 1, 2)]
     /\ fresh' = IF occ[l] = 0 THEN fresh \cup {l} ELSE fresh
     /\ sole' = [sole EXCEPT ![l] = IF occ[l] = 0 THEN u ELSE NoUnit]
     \* keeps[l] is followed for the second unit of a label only
     /\ keeps' = [keeps EXCEPT ![l] =
                    \/ occ[l] # 1
                    \/ l \notin fresh
                    \/ UnitOf(MapValues(m2), l) \in {u, MapGet(unitMap, l)}]
     /\ UNCHANGED <<ldPc, units>>
     /\ UNCHANGED <<mgVars, sysVars, teVars, rcVars, lbVars, brVars>>

\* the document has no further unit: mergeUnits returns the Map's values
EndSuite ==
  /\ ldPc = "merging"
  /\ units' = MapValues(unitMap)
  /\ unitMap' = <<>>
  /\ ldPc' = "loop"
  /\ UNCHANGED <<seenLabels, occ, fresh, sole, keeps>>
  /\ UNCHANGED <<mgVars, sysVars, teVars, rcVars, lbVars, brVars>>

\* no further suite: every unit's tests are normalised and the corpus is returned
Normalize ==
  /\ ldPc = "loop"
  /\ units' = [i \in 1..Len(units) |-> NormalizeUnit(units[i])]
  /\ ldPc' = "done"
  /\ UNCHANGED <<unitMap, seenLabels, occ, fresh, sole, keeps>>
  /\ UNCHANGED <<mgVars, sysVars, teVars, rcVars, lbVars, brVars>>

(***************************************************************************)
(* mergeUnits called on two arrays of units (lib.js 158-163).              *)
(***************************************************************************)
OneUnitDocs == {<<>>} \cup {<<u>> : u \in Units}
TwoUnitDocs == {<<u, v>> : u \in Units, v \in Units}
\* what readTestUnits holds after folding one document
Corpora == {mergeUnits(Arr(<<>>), Arr(d)) : d \in TwoUnitDocs}

MergeInit ==
  /\ mgPc = "args"
  /\ out = <<>>
  /\ \/ argA \in OneUnitDocs /\ argB \in OneUnitDocs
     \/ argA \in Corpora /\ argB = argA

MergeIdle ==
  /\ mgPc = "off"
  /\ out = <<>>
  /\ argA = <<>>
  /\ argB = <<>>

CallMergeUnits ==
  /\ mgPc = "args"
  /\ out' = mergeUnits(Arr(argA), Arr(argB))
  /\ mgPc' = "done"
  /\ UNCHANGED <<argA, argB>>
  /\ UNCHANGED <<ldVars, sysVars, teVars, rcVars, lbVars, brVars>>

(***************************************************************************)
(* The adapter of citeprocSys (lib.js 57-105) and readLibrary (108-118).   *)
(***************************************************************************)
\* JavaScript values the callbacks return
JsFalse == [kind |-> "false", text |-> ""]
JsUndefined == [kind |-> "undefined", text |-> ""]
JsString(t) == [kind |-> "string", text |-> t]
Falsy(v) == v.kind \in {"false", "undefined"} \/ (v.kind = "string" /\ v.text = "")

\* _cacheLoc('style-modules') and _cacheLoc('locales')
CacheStyleModules == "cache/style-modules"
CacheLocales == "cache/locales"
CallerDirs == {"d1", "d2"}
AllDirs == CallerDirs \cup {CacheStyleModules}
DirLists == UNION {[1..n -> CallerDirs] : n \in 0..MaxDirs}

\* what fs.readFileSync finds at a path: a throw, an empty file, or a text
\* (the text of a directory's file names the directory)
ReadThrows == [ok |-> FALSE, text |-> ""]
ReadGives(t) == [ok |-> TRUE, text |-> t]
FileStates == {f \in [AllDirs -> {ReadThrows, ReadGives("")} \cup {ReadGives(d) : d \in AllDirs}] :
                 \A d \in AllDirs : f[d].text \in {"", d}}

\* jurisdiction codes as their parts, ":" a part of its own; preferences
JurisdictionCodes == {<<"us">>, <<"us", ":", "ca">>}
Preferences == {"", "pref"}

\* jurisdiction.replace(/\:/g, "+")
ReplaceColons(j) == [i \in 1..Len(j) |-> IF j[i] = ":" THEN "+" ELSE j[i]]

\* the file name of lines 78-81
ModuleFileName(jurisdiction, preference) ==
  IF preference # ""
    THEN <<"juris-">> \o ReplaceColons(jurisdiction) \o <<"-", preference, ".csl">>
    ELSE <<"juris-">> \o ReplaceColons(jurisdiction) \o <<".csl">>

\* a push that puts the cache directory in front of the caller's directories
PushCacheDir_front(dirs) == <<CacheStyleModules>> \o dirs

\* line 89
PushCacheDir(dirs) == Append(dirs, CacheStyleModules)

\* a loop turn without the catch: a failing read ends the search with its error
TryStep_noCatch(ret, found) ==
  IF ~found.ok THEN [ret |-> ret, ctl |-> "throw"]
  ELSE IF found.text # "" THEN [ret |-> JsString(found.text), ctl |-> "return"]
  ELSE [ret |-> JsString(found.text), ctl |-> "continue"]

\* one turn of the loop of lines 93-102
TryStep(ret, found) ==
  IF ~found.ok THEN [ret |-> ret, ctl |-> "continue"]
  ELSE IF found.text # "" THEN [ret |-> JsString(found.text), ctl |-> "return"]
  ELSE [ret |-> JsString(found.text), ctl |-> "continue"]

\* lines 92-103: the value returned, how many directories were read, a throw
RECURSIVE SearchFrom(_, _, _, _)
SearchFrom(ord, i, ret, fs) ==
  IF i > Len(ord) THEN [ret |-> ret, n |-> Len(ord), raised |-> FALSE]
  ELSE LET st == TryStep(ret, fs[ord[i]])
       IN IF st.ctl = "return" THEN [ret |-> st.ret, n |-> i, raised |-> FALSE]
          ELSE IF st.ctl = "throw" THEN [ret |-> JsUndefined, n |-> i, raised |-> TRUE]
          ELSE SearchFrom(ord, i + 1, st.ret, fs)

\* the libraries readConfigFiles may load: item records [id, title]
Item(i, t) == [id |-> i, title |-> t]
Libraries == {<<>>, <<Item("r1", "A")>>, <<Item("r1", "A"), Item("r2", "B")>>,
              <<Item("r1", "A"), Item("r1", "B")>>}
ItemIds == {"r1", "r2", "r3"}
Languages == {"en-US", "fr-FR"}

\* readLibrary's citations object: a later item of the same id replaces an earlier one
RECURSIVE readLibrary(_)
readLibrary(library) ==
  IF library = <<>> THEN <<>>
  ELSE MapSet(readLibrary(Front(library)), Last(library).id, Last(library))

SysInit ==
  /\ sysCitations \in {readLibrary(lib) : lib \in Libraries}
  /\ givenDirs \in DirLists
  /\ jurisdictionDirs = givenDirs
  /\ sysCalls = 0
  /\ sysLast = "none"
  /\ sysId = <<>>
  /\ files = [d \in AllDirs |-> ReadThrows]
  /\ searched = <<>>
  /\ sysRet = JsUndefined
  /\ sysRaised = FALSE

SysIdle ==
  /\ sysCitations = <<>>
  /\ givenDirs = <<>>
  /\ jurisdictionDirs = <<>>
  /\ sysCalls = 0
  /\ sysLast = "off"
  /\ sysId = <<>>
  /\ files = [d \in AllDirs |-> ReadThrows]
  /\ searched = <<>>
  /\ sysRet = JsUndefined
  /\ sysRaised = FALSE

\* retrieveStyleModule(jurisdiction, preference) while the directories hold fs
retrieveStyleModule(jurisdiction, preference, fs) ==
  LET dirs == PushCacheDir(jurisdictionDirs)
      res == SearchFrom(dirs, 1, JsFalse, fs)
  IN /\ sysCalls < MaxCalls
     /\ sysLast # "off"
     /\ sysCalls' = sysCalls + 1
     /\ sysLast' = "retrieveStyleModule"
     /\ sysId' = ModuleFileName(jurisdiction, preference)
     /\ files' = fs
     /\ jurisdictionDirs' = dirs
     /\ searched' = SubSeq(dirs, 1, res.n)
     /\ sysRet' = res.ret
     /\ sysRaised' = res.raised
     /\ UNCHANGED <<sysCitations, givenDirs>>
     /\ UNCHANGED <<ldVars, mgVars, teVars, rcVars, lbVars, brVars>>

\* retrieveLocale(lang): readFileSync of the locale file, which throws when it fails
retrieveLocale(lang, found) ==
  /\ sysCalls < MaxCalls
  /\ sysLast # "off"
  /\ sysCalls' = sysCalls + 1
  /\ sysLast' = "retrieveLocale"
  /\ sysId' = <<"locales-", lang, ".xml">>
  /\ searched' = <<CacheLocales>>
  /\ sysRet' = IF found.ok THEN JsString(found.text) ELSE JsUndefined
  /\ sysRaised' = ~found.ok
  /\ UNCHANGED <<sysCitations, jurisdictionDirs, givenDirs, files>>
  /\ UNCHANGED <<ldVars, mgVars, teVars, rcVars, lbVars, brVars>>

\* retrieveItem(id): citations[id]
retrieveItem(id) ==
  /\ sysCalls < MaxCalls
  /\ sysLast # "off"
  /\ sysCalls' = sysCalls + 1
  /\ sysLast' = "retrieveItem"
  /\ sysId' = <<id>>
  /\ searched' = <<>>
  /\ sysRet' = IF MapHas(sysCitations, id)
                 THEN [kind |-> "item", text |-> MapGet(sysCitations, id).title]
                 ELSE JsUndefined
  /\ sysRaised' = FALSE
  /\ UNCHANGED <<sysCitations, jurisdictionDirs, givenDirs, files>>
  /\ UNCHANGED <<ldVars, mgVars, teVars, rcVars, lbVars, brVars>>

(***************************************************************************)
(* The TestEngine's abbreviation store (lib.js 270-339).                   *)
(***************************************************************************)
\* the categories of CSL.AbbreviationSegments
Categories == {"title", "place"}
CategoryOrder == <<"title", "place">>
\* new CSL.AbbreviationSegments(): every category, empty; a category's record is a
\* set of <<key, value>> pairs with distinct keys
AbbreviationSegments == [c \in Categories |-> {}]
DefaultOnly == [j \in {"default"} |-> AbbreviationSegments]
EmptyObject == [j \in {} |-> AbbreviationSegments]

\* raw keys as characters
KeyUS == <<"U", "S">>
KeyUsLower == <<"u", " ", "s">>
KeyUK == <<"U", "K">>
RawKeys == {KeyUS, KeyUsLower, KeyUK}
LowerCase(c) ==
  CASE c = "U" -> "u" [] c = "S" -> "s" [] c = "K" -> "k" [] OTHER -> c
\* lookupKey(normalizeKey(key)): lower case, white space removed
NormalizedLookupKey(key) ==
  SelectSeq([i \in 1..Len(key) |-> LowerCase(key[i])], LAMBDA c : c # " ")

\* abbreviation sets: jurisdiction ("" when absent) and, per category, the entries of
\* the category's object in the order of Object.entries
AbbreviationSet(j, t, p) == [jurisdiction |-> j, title |-> t, place |-> p]
AbbreviationSets ==
  { AbbreviationSet("", << <<KeyUS, "v1">> >>, <<>>),
    AbbreviationSet("us", << <<KeyUS, "v1">>, <<KeyUsLower, "v2">> >>, <<>>),
    AbbreviationSet("us", <<>>, << <<KeyUK, "v3">> >>),
    AbbreviationSet("ca", <<>>, <<>>) }
SetLists == UNION {[1..n -> AbbreviationSets] : n \in 0..MaxSets}
NoSets == [given |-> FALSE, list |-> <<>>]
SetsArgs == {NoSets} \cup {[given |-> TRUE, list |-> l] : l \in SetLists}
StoreJurisdictions == {"default", "us", "ca"}

\* an assignment record[key] = value
PutKey(record, key, value) == {e \in record : e[1] # key} \cup {<<key, value>>}

\* addAbbreviation (lines 333-338)
addAbbreviation(store, jurisdiction, category, key, value) ==
  LET withJur == IF jurisdiction \in DOMAIN store THEN store
                 ELSE [j \in DOMAIN store \cup {jurisdiction} |->
                         IF j = jurisdiction THEN AbbreviationSegments ELSE store[j]]
      k == NormalizedLookupKey(key)
  IN [withJur EXCEPT ![jurisdiction][category] = PutKey(@, k, value)]

\* lines 311-313: the entries of one category of one set
RECURSIVE AddEntries(_, _, _, _)
AddEntries(store, jurisdiction, category, kvs) ==
  IF kvs = <<>> THEN store
  ELSE AddEntries(addAbbreviation(store, jurisdiction, category, kvs[1][1], kvs[1][2]),
                  jurisdiction, category, Tail(kvs))

\* lines 309-314: the categories of one set, in the order of the fixed category list
RECURSIVE AddCategories(_, _, _)
AddCategories(store, set, cats) ==
  IF cats = <<>> THEN store
  ELSE AddCategories(
         AddEntries(store, IF set.jurisdiction = "" THEN "default" ELSE set.jurisdiction,
                    cats[1], set[cats[1]]),
         set, Tail(cats))

\* lines 305-315
RECURSIVE ApplySetList(_, _)
ApplySetList(store, list) ==
  IF list = <<>> THEN store
  ELSE ApplySetList(AddCategories(store, list[1], CategoryOrder), Tail(list))

ApplySets(store, sets) == IF ~sets.given THEN store ELSE ApplySetList(store, sets.list)

\* a reset that keeps what the store held and only makes sure of "default"
ResetStore_keepOld(old) ==
  IF "default" \in DOMAIN old THEN old ELSE DefaultOnly

\* lines 297-299: this.abbreviations is a new object holding "default" alone
ResetStore(old) == DefaultOnly

\* a reset that points the TestEngine at a new object and leaves the engine's alone
ClearCache_replace(ref, hp) ==
  IF ref = "null" THEN [ref |-> ref, heap |-> hp]
  ELSE [ref |-> "fresh", heap |-> [hp EXCEPT !["fresh"] = DefaultOnly]]

\* lines 300-304: the object sysAbbreviationCache points to is emptied key by key and
\* given a new "default"
ClearCache(ref, hp) ==
  IF ref = "null" THEN [ref |-> ref, heap |-> hp]
  ELSE [ref |-> ref, heap |-> [hp EXCEPT ![ref] = DefaultOnly]]

\* an _atIndex that numbers the notes from 0
_atIndex_zeroBased(c, i) ==
  [citationID |-> <<"CITATION-", i>>, properties |-> [noteIndex |-> i - 1], citationItems |-> c]

\* _atIndex (lines 120-126)
_atIndex(c, i) ==
  [citationID |-> <<"CITATION-", i>>, properties |-> [noteIndex |-> i], citationItems |-> c]

\* engine.rebuildProcessorState: one [citationID, noteIndex, text] per citation
EngineRebuild(cits) ==
  [i \in 1..Len(cits) |->
     <<cits[i].citationID, cits[i].properties.noteIndex, <<"text of", cits[i].citationItems>>>>]

CitationItems == {"r1", "r2"}
ClusterLists == {<<>>, << <<"r1">> >>, << <<"r1", "r2">>, <<"r1">> >>}

EngineInit ==
  /\ abbreviations = EmptyObject
  /\ sysAbbreviationCache = "null"
  /\ heap = [o \in {"engine", "fresh"} |-> EmptyObject]
  /\ tePc = "idle"
  /\ teCaller = "none"
  /\ lastSets = NoSets
  /\ engineInput = <<>>
  /\ teOut = <<>>
  /\ staleJurs = {}
  /\ staleCache = FALSE
  /\ teClusters = <<>>

EngineIdle ==
  /\ abbreviations = EmptyObject
  /\ sysAbbreviationCache = "null"
  /\ heap = [o \in {"engine", "fresh"} |-> EmptyObject]
  /\ tePc = "off"
  /\ teCaller = "none"
  /\ lastSets = NoSets
  /\ engineInput = <<>>
  /\ teOut = <<>>
  /\ staleJurs = {}
  /\ staleCache = FALSE
  /\ teClusters = <<>>

\* setAbbreviations(sets) and line 328, on behalf of caller
BeginSequence(clusters, sets, caller) ==
  LET cleared == ClearCache(sysAbbreviationCache, heap)
  IN /\ tePc = "idle"
     /\ abbreviations' = ApplySets(ResetStore(abbreviations), sets)
     /\ sysAbbreviationCache' = cleared.ref
     /\ heap' = cleared.heap
     /\ lastSets' = sets
     /\ teClusters' = clusters
     /\ engineInput' = [i \in 1..Len(clusters) |-> _atIndex(clusters[i], i)]
     /\ teOut' = <<>>
     /\ teCaller' = caller
     /\ tePc' = "reset"
     /\ staleJurs' = DOMAIN abbreviations
     /\ staleCache' = /\ sysAbbreviationCache # "null"
                       /\ DOMAIN heap["engine"] \ {"default"} # {}
     /\ UNCHANGED <<ldVars, mgVars, sysVars, rcVars, lbVars, brVars>>

\* produceSequence(clusters, format, abbreviations) up to the call of the engine
produceSequence(clusters, sets) == BeginSequence(clusters, sets, "sequence")

\* produceSingle(single, format, abbreviations) up to the call of the engine
produceSingle(single, sets) == BeginSequence(<< <<single>> >>, sets, "single")

\* while it renders, the engine asks sys.getAbbreviation with its own cache object:
\* the TestEngine is told the object (line 284) and the object gets the entry
getAbbreviation(jurisdiction, category, key) ==
  LET k == NormalizedLookupKey(key)
      known == /\ jurisdiction \in DOMAIN abbreviations
               /\ \E e \in abbreviations[jurisdiction][category] : e[1] = k
      cache == heap["engine"]
      withJur == IF jurisdiction \in DOMAIN cache THEN cache
                 ELSE [j \in DOMAIN cache \cup {jurisdiction} |->
                         IF j = jurisdiction THEN AbbreviationSegments ELSE cache[j]]
      value == (CHOOSE e \in abbreviations[jurisdiction][category] : e[1] = k)[2]
  IN /\ tePc \in {"reset", "rendering"}
     /\ tePc' = "rendering"
     /\ sysAbbreviationCache' = "engine"
     /\ heap' = IF known
                 THEN [heap EXCEPT !["engine"] =
                         [withJur EXCEPT ![jurisdiction][category] = PutKey(@, k, value)]]
                 ELSE heap
     /\ UNCHANGED <<abbreviations, teCaller, lastSets, engineInput, teOut,
                    staleJurs, staleCache, teClusters>>
     /\ UNCHANGED <<ldVars, mgVars, sysVars, rcVars, lbVars, brVars>>

\* lines 329-330: the engine returns and produceSequence maps its output; produceSingle
\* (line 323) returns the first element
ReturnSequence ==
  /\ tePc \in {"reset", "rendering"}
  /\ teOut' = LET o == EngineRebuild(engineInput)
                   texts == [i \in 1..Len(o) |-> o[i][3]]
               IN IF teCaller = "single" THEN texts[1] ELSE texts
  /\ tePc' = "idle"
  /\ UNCHANGED <<abbreviations, sysAbbreviationCache, heap, teCaller, lastSets,
                 engineInput, staleJurs, staleCache, teClusters>>
  /\ UNCHANGED <<ldVars, mgVars, sysVars, rcVars, lbVars, brVars>>

(***************************************************************************)
(* ensureCachedRepos and cloneOrPull (lib.js 21-55), one action per        *)
(* operation of the promise chain.                                         *)
(***************************************************************************)
\* the two sources, in the order of the chain of lines 45-53
Sources == <<"locales", "style-modules">>
SourceSet == Range(Sources)
\* a local copy is absent, present (it opens) or broken (it is there and does not open)
CopyStates == {"absent", "present", "broken"}

\* a chain that starts cloneOrPull on every source at once
ChainStart_parallel(srcs) == [s \in Range(srcs) |-> "open"]

\* lines 45-53: Promise.resolve().then(first source).then(second source)
ChainStart(srcs) == [s \in Range(srcs) |-> IF s = srcs[1] THEN "open" ELSE "waiting"]

\* an open whose failure is answered by a fetch
AfterOpen_fetchOnFail(ok, shouldPull) ==
  IF ok THEN (IF shouldPull THEN "fetch" ELSE "done") ELSE "fetch"

\* an open that pulls whatever shouldPull says
AfterOpen_alwaysPull(ok, shouldPull) == IF ok THEN "fetch" ELSE "remove"

\* lines 24-27 and 34: after git.Repository.open
AfterOpen(ok, shouldPull) ==
  IF ok THEN (IF shouldPull THEN "fetch" ELSE "done") ELSE "remove"

\* a pull whose failure is answered by a clone over the old copy
AfterPull_noRemove(op, ok) ==
  IF ~ok THEN "clone" ELSE IF op = "fetch" THEN "merge" ELSE "done"

\* lines 28-31 and 34: after repo.fetchAll and after repo.mergeBranches
AfterPull(op, ok) ==
  IF ~ok THEN "remove" ELSE IF op = "fetch" THEN "merge" ELSE "done"

\* lines 36-37: after fse.remove
AfterRemove(ok) == IF ok THEN "clone" ELSE "failed"

\* a clone that is tried again when it fails
AfterClone_retry(ok) == IF ok THEN "done" ELSE "clone"

\* line 37: after git.Clone, whose promise is what cloneOrPull returns
AfterClone(ok) == IF ok THEN "done" ELSE "failed"

\* the source after s in the chain, or "none"
Following(s) ==
  IF \E i \in 1..(Len(Sources) - 1) : Sources[i] = s
    THEN Sources[(CHOOSE i \in 1..Len(Sources) : Sources[i] = s) + 1]
    ELSE "none"

\* source s moves to step nxt: a fulfilled cloneOrPull lets the next .then run, a
\* rejected one rejects the chain
Settle(s, op, nxt) ==
  /\ rcStep' = [t \in SourceSet |->
                  IF t = s THEN nxt
                  ELSE IF nxt = "done" /\ t = Following(s) /\ rcStep[t] = "waiting" THEN "open"
                  ELSE rcStep[t]]
  /\ rcResult' = IF nxt = "failed" THEN <<"rejected", s, op>>
                 ELSE IF nxt = "done" /\ \A t \in SourceSet \ {s} : rcStep[t] = "done"
                   THEN <<"resolved">>
                 ELSE rcResult

RepoInit ==
  /\ rcStep = [s \in SourceSet |-> "idle"]
  /\ rcPull = FALSE
  /\ rcCopy \in [SourceSet -> CopyStates]
  /\ rcCopy0 = rcCopy
  /\ rcLog = <<>>
  /\ rcResult = <<"none">>

RepoIdle ==
  /\ rcStep = [s \in SourceSet |-> "off"]
  /\ rcPull = FALSE
  /\ rcCopy = [s \in SourceSet |-> "absent"]
  /\ rcCopy0 = rcCopy
  /\ rcLog = <<>>
  /\ rcResult = <<"none">>

\* ensureCachedRepos(shouldPull): the chain is built and the promise returned
ensureCachedRepos(shouldPull) ==
  /\ \A s \in SourceSet : rcStep[s] = "idle"
  /\ rcStep' = ChainStart(Sources)
  /\ rcPull' = shouldPull
  /\ rcResult' = <<"pending">>
  /\ UNCHANGED <<rcCopy, rcCopy0, rcLog>>
  /\ UNCHANGED <<ldVars, mgVars, sysVars, teVars, lbVars, brVars>>

\* git.Repository.open(repoDir): it opens a present copy and no other
RepositoryOpen(s) ==
  LET ok == rcCopy[s] = "present"
  IN /\ rcStep[s] = "open"
     /\ rcLog' = Append(rcLog, <<s, "open", ok>>)
     /\ Settle(s, "open", AfterOpen(ok, rcPull))
     /\ UNCHANGED <<rcPull, rcCopy, rcCopy0>>
     /\ UNCHANGED <<ldVars, mgVars, sysVars, teVars, lbVars, brVars>>

\* repo.fetchAll()
FetchAll(s, ok) ==
  /\ rcStep[s] = "fetch"
  /\ rcLog' = Append(rcLog, <<s, "fetch", ok>>)
  /\ Settle(s, "fetch", AfterPull("fetch", ok))
  /\ UNCHANGED <<rcPull, rcCopy, rcCopy0>>
  /\ UNCHANGED <<ldVars, mgVars, sysVars, teVars, lbVars, brVars>>

\* repo.mergeBranches(branch, 'origin/' + branch)
MergeBranches(s, ok) ==
  /\ rcStep[s] = "merge"
  /\ rcLog' = Append(rcLog, <<s, "merge", ok>>)
  /\ Settle(s, "merge", AfterPull("merge", ok))
  /\ UNCHANGED <<rcPull, rcCopy, rcCopy0>>
  /\ UNCHANGED <<ldVars, mgVars, sysVars, teVars, lbVars, brVars>>

\* fse.remove(repoDir): nothing to remove always succeeds, a copy may resist
FsRemove(s, ok) ==
  /\ rcStep[s] = "remove"
  /\ ok \/ rcCopy[s] # "absent"
  /\ rcLog' = Append(rcLog, <<s, "remove", ok>>)
  /\ rcCopy' = [rcCopy EXCEPT ![s] = IF ok THEN "absent" ELSE "broken"]
  /\ Settle(s, "remove", AfterRemove(ok))
  /\ UNCHANGED <<rcPull, rcCopy0>>
  /\ UNCHANGED <<ldVars, mgVars, sysVars, teVars, lbVars, brVars>>

\* git.Clone(url, repoDir): a failed clone leaves nothing or a partial copy
GitClone(s, ok, left) ==
  /\ rcStep[s] = "clone"
  /\ rcLog' = Append(rcLog, <<s, "clone", ok>>)
  /\ rcCopy' = [rcCopy EXCEPT ![s] = IF ok THEN "present" ELSE left]
  /\ Settle(s, "clone", AfterClone(ok))
  /\ UNCHANGED <<rcPull, rcCopy0>>
  /\ UNCHANGED <<ldVars, mgVars, sysVars, teVars, lbVars, brVars>>

(***************************************************************************)
(* insertMissingPageLabels called on one test case (lib.js 187-203).       *)
(***************************************************************************)
\* citation items: an id, with or without a locator, with no label, a label or an
\* empty label
BareItem == [id |-> "r1"]
LocatedItem == With(BareItem, "locator", "5")
CiteItems == {BareItem, LocatedItem} \cup
             {With(i, "label", l) : i \in {BareItem, LocatedItem}, l \in {"section", ""}}
NeedsLabel == {LocatedItem, With(LocatedItem, "label", "")}
ItemClusters == {<<i>> : i \in CiteItems} \cup {<<i, j>> : i \in NeedsLabel, j \in CiteItems}
SequenceInputs == {<<>>} \cup {<<c>> : c \in ItemClusters} \cup
                  {<<c, d>> : c \in {<<i>> : i \in CiteItems}, d \in {<<i>> : i \in NeedsLabel}}
\* test cases with a single item, a sequence, both or neither
PlainTest == [it |-> "t1", expect |-> Text(<<"a">>), format |-> "html"]
LabelTests ==
  {PlainTest} \cup {With(PlainTest, "single", i) : i \in CiteItems}
    \cup {With(PlainTest, "sequence", q) : q \in SequenceInputs}
    \cup {With(With(PlainTest, "single", i), "sequence", q) :
            i \in CiteItems, q \in {<<c>> : c \in ItemClusters}}

LabelsInit ==
  /\ lbPc = "arg"
  /\ lbTest \in LabelTests
  /\ lbOut = PlainTest

LabelsIdle ==
  /\ lbPc = "off"
  /\ lbTest = PlainTest
  /\ lbOut = PlainTest

CallInsertMissingPageLabels ==
  /\ lbPc = "arg"
  /\ lbOut' = insertMissingPageLabels(lbTest)
  /\ lbPc' = "done"
  /\ UNCHANGED lbTest
  /\ UNCHANGED <<ldVars, mgVars, sysVars, teVars, rcVars, brVars>>

(***************************************************************************)
(* jestCSL and jestTestCase (part_000 13-52) with readTestUnits (lib.js    *)
(* 253-268), expandGlobs (180-184) and readConfigFiles (223-251).          *)
(***************************************************************************)
\* test cases of suite documents
Single1 == LocatedItem
Sequence1 == << <<BareItem>>, <<LocatedItem>> >>
TNormal == [it |-> "t1", expect |-> Text(<<"a">>), single |-> Single1]
TNoExpect == [it |-> "t1", single |-> Single1, format |-> "html"]
TOnlyNoExpect == [it |-> "t2", mode |-> "only", single |-> Single1]
TSkipSeq == [it |-> "t2", mode |-> "skip", expect |-> TextArray(<<Text(<<"a">>)>>),
             sequence |-> Sequence1]
TDoc == [it |-> "t3", mode |-> "doc", expect |-> Text(<<" ", "b">>), single |-> Single1,
         format |-> "html"]
TOnlySeq == [it |-> "t2", mode |-> "only", expect |-> TextArray(<<Text(<<"a">>)>>),
             sequence |-> Sequence1]
TBare == [it |-> "t3", expect |-> Text(<<"a">>)]
\* units, with or without a field of their own next to describe and tests
Unit(l, ts) == [describe |-> l, tests |-> ts]
Noted(u) == With(u, "note", "n")
\* suite documents
DocA1 == Arr(<<Noted(Unit("X", <<TNormal, TOnlyNoExpect>>))>>)
DocA2 == Arr(<<Unit("X", <<TNoExpect>>), Unit("Y", <<TSkipSeq, TBare>>)>>)
DocB1 == Arr(<<Noted(Unit("X", <<TDoc>>))>>)
DocB2 == Arr(<<Unit("Y", <<TOnlySeq, TNormal>>)>>)
\* the files: each is missing or holds one of its documents
FileNames == {"a.yaml", "b1.yaml", "b2.yaml"}
Missing == [isArray |-> FALSE, items |-> <<>>, missing |-> TRUE]
FileSystems ==
  {f \in [FileNames -> {Missing, NotArray, DocA1, DocA2, DocB1, DocB2}] :
     /\ f["a.yaml"] \in {Missing, DocA1, DocA2}
     /\ f["b1.yaml"] \in {Missing, DocB1, NotArray}
     /\ f["b2.yaml"] \in {Missing, DocB2}}
\* args.suites: a list of patterns
Patterns == {"a.yaml", "b*.yaml"}
SuiteLists == {<<>>} \cup {<<p>> : p \in Patterns} \cup {<<p, q>> : p \in Patterns, q \in Patterns}

\* glob.sync(pattern): the existing files the pattern matches, sorted
GlobSync(pattern, fs) ==
  IF pattern = "a.yaml"
    THEN SelectSeq(<<"a.yaml">>, LAMBDA n : fs[n] # Missing)
    ELSE SelectSeq(<<"b1.yaml", "b2.yaml">>, LAMBDA n : fs[n] # Missing)

\* expandGlobs (lines 180-184)
RECURSIVE expandGlobs(_, _)
expandGlobs(gs, fs) ==
  IF gs = <<>> THEN <<>> ELSE GlobSync(gs[1], fs) \o expandGlobs(Tail(gs), fs)

\* the loop of lines 256-260
RECURSIVE FoldSuites(_, _, _)
FoldSuites(us, suiteFiles, fs) ==
  IF suiteFiles = <<>> THEN us
  ELSE FoldSuites(mergeUnits(Arr(us), fs[suiteFiles[1]]), Tail(suiteFiles), fs)

\* readTestUnits (lines 253-268)
readTestUnits(suites, fs) ==
  LET merged == FoldSuites(<<>>, expandGlobs(suites, fs), fs)
  IN [i \in 1..Len(merged) |-> NormalizeUnit(merged[i])]

\* the messages of _bail
StyleNotLoaded == "style not loaded"
NoSuitesProvided == "no test args.suites provided"

\* readConfigFiles (lines 223-251): the message it bails with, or "" when it returns
readConfigFiles(styleLoaded, suites) ==
  IF ~styleLoaded THEN StyleNotLoaded
  ELSE IF Len(suites) = 0 THEN NoSuitesProvided
  ELSE ""

\* part_000 28-37: how one test is registered with jest
RegisterAs(itProps, test) ==
  IF Has(test, "mode") /\ test.mode \in itProps THEN test.mode
  ELSE IF Has(test, "expect") /\ TruthyText(test.expect) THEN "it"
  ELSE "skip"

\* part_000 21-39: the registrations of one unit
RegisterUnit(itProps, unit) ==
  [i \in 1..Len(unit.tests) |->
     [describe |-> unit.describe, it |-> unit.tests[i].it,
      as |-> RegisterAs(itProps, unit.tests[i]), test |-> unit.tests[i]]]

\* jestTestCase (part_000 44-52): the engine call it makes
jestTestCase(test) ==
  IF Has(test, "single") /\ Has(test, "expect") /\ TruthyText(test.expect)
    THEN "produceSingle"
  ELSE IF Has(test, "sequence") /\ Has(test, "expect") /\ TruthyText(test.expect)
    THEN "produceSequence"
  ELSE "nothing"

\* the registered tests jest runs: those registered with only when there are any,
\* else those registered plainly
Runnable(registry) ==
  IF \E i \in 1..Len(registry) : registry[i].as = "only"
    THEN SelectSeq(registry, LAMBDA e : e.as = "only")
    ELSE SelectSeq(registry, LAMBDA e : e.as = "it")

BridgeInit ==
  /\ brPc = "start"
  /\ brJest \in BOOLEAN
  /\ brIt \in {{"skip", "only"}, {}}
  /\ brStyle \in BOOLEAN
  /\ brSuites \in SuiteLists
  /\ brFiles \in FileSystems
  /\ brUnits = <<>>
  /\ brLoaded = FALSE
  /\ brDescribed = 0
  /\ brRegistry = <<>>
  /\ brRan = <<>>
  /\ brError = ""

BridgeIdle ==
  /\ brPc = "off"
  /\ brJest = FALSE
  /\ brIt = {}
  /\ brStyle = FALSE
  /\ brSuites = <<>>
  /\ brFiles = [n \in FileNames |-> Missing]
  /\ brUnits = <<>>
  /\ brLoaded = FALSE
  /\ brDescribed = 0
  /\ brRegistry = <<>>
  /\ brRan = <<>>
  /\ brError = ""

\* part_000 14-16: outside jest, jestCSL returns at once
JestUndefined ==
  /\ brPc = "start"
  /\ ~brJest
  /\ brPc' = "returned"
  /\ UNCHANGED <<brJest, brIt, brStyle, brSuites, brFiles, brUnits, brLoaded,
                 brDescribed, brRegistry, brRan, brError>>
  /\ UNCHANGED <<ldVars, mgVars, sysVars, teVars, rcVars, lbVars>>

\* part_000 18: let units = readTestUnits(args.suites)
LoadUnits ==
  /\ brPc = "start"
  /\ brJest
  /\ brUnits' = readTestUnits(brSuites, brFiles)
  /\ brLoaded' = TRUE
  /\ brPc' = "loaded"
  /\ UNCHANGED <<brJest, brIt, brStyle, brSuites, brFiles, brDescribed, brRegistry,
                 brRan, brError>>
  /\ UNCHANGED <<ldVars, mgVars, sysVars, teVars, rcVars, lbVars>>

\* part_000 19: new TestEngine(args), whose constructor calls readConfigFiles
NewTestEngine ==
  LET msg == readConfigFiles(brStyle, brSuites)
  IN /\ brPc = "loaded"
     /\ brError' = msg
     /\ brPc' = IF msg = "" THEN "describing" ELSE "exited"
     /\ UNCHANGED <<brJest, brIt, brStyle, brSuites, brFiles, brUnits, brLoaded,
                    brDescribed, brRegistry, brRan>>
     /\ UNCHANGED <<ldVars, mgVars, sysVars, teVars, rcVars, lbVars>>

\* part_000 21-40: one turn of units.forEach
DescribeUnit ==
  /\ brPc = "describing"
  /\ brDescribed < Len(brUnits)
  /\ brRegistry' = brRegistry \o RegisterUnit(brIt, brUnits[brDescribed + 1])
  /\ brDescribed' = brDescribed + 1
  /\ UNCHANGED <<brPc, brJest, brIt, brStyle, brSuites, brFiles, brUnits, brLoaded,
                 brRan, brError>>
  /\ UNCHANGED <<ldVars, mgVars, sysVars, teVars, rcVars, lbVars>>

\* part_000 41-42: jestCSL returns
EndDescribe ==
  /\ brPc = "describing"
  /\ brDescribed = Len(brUnits)
  /\ brPc' = "registered"
  /\ UNCHANGED <<brJest, brIt, brStyle, brSuites, brFiles, brUnits, brLoaded,
                 brDescribed, brRegistry, brRan, brError>>
  /\ UNCHANGED <<ldVars, mgVars, sysVars, teVars, rcVars, lbVars>>

\* jest runs the next test it has to run: run() calls jestTestCase(engine, test)
RunTest ==
  /\ brPc = "registered"
  /\ Len(brRan) < Len(Runnable(brRegistry))
  /\ brRan' = Append(brRan,
                     LET e == Runnable(brRegistry)[Len(brRan) + 1]
                     IN [describe |-> e.describe, it |-> e.it, call |-> jestTestCase(e.test)])
  /\ UNCHANGED <<brPc, brJest, brIt, brStyle, brSuites, brFiles, brUnits, brLoaded,
                 brDescribed, brRegistry, brError>>
  /\ UNCHANGED <<ldVars, mgVars, sysVars, teVars, rcVars, lbVars>>

(***************************************************************************)
(* Specifications.                                                         *)
(***************************************************************************)
Init == LoaderInit /\ MergeIdle /\ SysIdle /\ EngineIdle /\ RepoIdle /\ LabelsIdle /\ BridgeIdle

Next ==
  \/ ReadSuiteNotArray
  \/ ReadSuiteArray
  \/ \E u \in Units : AddNextUnit(u)
  \/ EndSuite
  \/ Normalize

Spec == Init /\ [][Next]_vars

InitMerge == LoaderIdle /\ MergeInit /\ SysIdle /\ EngineIdle /\ RepoIdle /\ LabelsIdle /\ BridgeIdle

NextMerge == CallMergeUnits

SpecMerge == InitMerge /\ [][NextMerge]_vars

InitSys == LoaderIdle /\ MergeIdle /\ SysInit /\ EngineIdle /\ RepoIdle /\ LabelsIdle /\ BridgeIdle

NextSys ==
  \/ \E j \in JurisdictionCodes, p \in Preferences, fs \in FileStates :
       retrieveStyleModule(j, p, fs)
  \/ \E lang \in Languages, found \in {ReadThrows, ReadGives("xml")} :
       retrieveLocale(lang, found)
  \/ \E id \in ItemIds : retrieveItem(id)

SpecSys == InitSys /\ [][NextSys]_vars

InitEngine == LoaderIdle /\ MergeIdle /\ SysIdle /\ EngineInit /\ RepoIdle /\ LabelsIdle /\ BridgeIdle

NextEngine ==
  \/ \E clusters \in ClusterLists, sets \in SetsArgs : produceSequence(clusters, sets)
  \/ \E single \in CitationItems, sets \in SetsArgs : produceSingle(single, sets)
  \/ \E j \in StoreJurisdictions, c \in Categories, k \in RawKeys : getAbbreviation(j, c, k)
  \/ ReturnSequence

SpecEngine == InitEngine /\ [][NextEngine]_vars

InitRepo == LoaderIdle /\ MergeIdle /\ SysIdle /\ EngineIdle /\ RepoInit /\ LabelsIdle /\ BridgeIdle

NextRepo ==
  \/ \E shouldPull \in BOOLEAN : ensureCachedRepos(shouldPull)
  \/ \E s \in SourceSet : RepositoryOpen(s)
  \/ \E s \in SourceSet, ok \in BOOLEAN : FetchAll(s, ok)
  \/ \E s \in SourceSet, ok \in BOOLEAN : MergeBranches(s, ok)
  \/ \E s \in SourceSet, ok \in BOOLEAN : FsRemove(s, ok)
  \/ \E s \in SourceSet, ok \in BOOLEAN, left \in {"absent", "broken"} : GitClone(s, ok, left)

SpecRepo == InitRepo /\ [][NextRepo]_vars

InitLabels == LoaderIdle /\ MergeIdle /\ SysIdle /\ EngineIdle /\ RepoIdle /\ LabelsInit /\ BridgeIdle

NextLabels == CallInsertMissingPageLabels

SpecLabels == InitLabels /\ [][NextLabels]_vars

InitBridge ==
  LoaderIdle /\ MergeIdle /\ SysIdle /\ EngineIdle /\ RepoIdle /\ LabelsIdle /\ BridgeInit

NextBridge ==
  \/ JestUndefined
  \/ LoadUnits
  \/ NewTestEngine
  \/ DescribeUnit
  \/ EndDescribe
  \/ RunTest

SpecBridge == InitBridge /\ [][NextBridge]_vars

(***************************************************************************)
(* Claims about the merge.                                                 *)
(***************************************************************************)
NamesOf(ts) == {ts[i].it : i \in 1..Len(ts)}
NoDuplicateNames(ts) ==
  \A i, j \in 1..Len(ts) : ts[i].it = ts[j].it => i = j
FirstIndex(ts, n) == CHOOSE i \in 1..Len(ts) :
  ts[i].it = n /\ \A j \in 1..(i - 1) : ts[j].it # n
LastIndex(ts, n) == CHOOSE i \in 1..Len(ts) :
  ts[i].it = n /\ \A j \in (i + 1)..Len(ts) : ts[j].it # n

\* mergeUnits was called on one unit A and one unit B of the same label
PairMerged ==
  /\ mgPc = "done"
  /\ Len(argA) = 1
  /\ Len(argB) = 1
  /\ argA[1].describe = argB[1].describe

\* C1 as stated: the merged unit's tests are A's tests in A's order, each test whose
\* name occurs in B carrying B's content at A's position, followed by the tests of B
\* whose names do not occur in A, in B's order.
C1_AsStated ==
  PairMerged =>
    LET A == argA[1].tests
        B == argB[1].tests
        newB == SelectSeq(B, LAMBDA t : t.it \notin NamesOf(A))
    IN /\ Len(out) = 1
       /\ out[1].describe = argA[1].describe
       /\ Len(out[1].tests) = Len(A) + Len(newB)
       /\ \A i \in 1..Len(A) :
            /\ out[1].tests[i].it = A[i].it
            /\ A[i].it \in NamesOf(B) => out[1].tests[i] \in Range(B)
            /\ A[i].it \notin NamesOf(B) => out[1].tests[i] = A[i]
       /\ \A k \in 1..Len(newB) : out[1].tests[Len(A) + k] = newB[k]

\* C1, amended: the merged unit holds each name of A followed by B once, in the order
\* of the names' first occurrences in A followed by B, and each name carries the
\* content of its last occurrence in A followed by B.
C1_MergeByName ==
  PairMerged =>
    LET AB == argA[1].tests \o argB[1].tests
        R == out[1].tests
    IN /\ Len(out) = 1
       /\ out[1].describe = argA[1].describe
       /\ NoDuplicateNames(R)
       /\ NamesOf(R) = NamesOf(AB)
       /\ \A i, j \in 1..Len(R) :
            i < j => FirstIndex(AB, R[i].it) < FirstIndex(AB, R[j].it)
       /\ \A i \in 1..Len(R) : R[i] = AB[LastIndex(AB, R[i].it)]

\* C1's case: A holds a name twice, B overrides it with other content and brings a
\* new name; the merged unit holds the overridden test, then the new one
C1_Witness ==
  /\ PairMerged
  /\ ~NoDuplicateNames(argA[1].tests)
  /\ \E i \in 1..Len(argB[1].tests) :
       /\ argB[1].tests[i].it \in NamesOf(argA[1].tests)
       /\ argB[1].tests[i] \notin Range(argA[1].tests)
  /\ \E i \in 1..Len(argB[1].tests) :
       argB[1].tests[i].it \notin NamesOf(argA[1].tests)
  /\ Len(out[1].tests) = 2
  /\ out[1].tests = argB[1].tests

\* C2: in the corpus readTestUnits returns, no unit holds two test cases of the
\* same name.
C2_NoDuplicateTestNames ==
  ldPc = "done" => \A i \in 1..Len(units) : NoDuplicateNames(units[i].tests)

\* C3: the accumulated corpus holds at most one unit per describe label, whatever
\* documents were folded.
C3_OneUnitPerLabel ==
  \A i, j \in 1..Len(units) : units[i].describe = units[j].describe => i = j

\* C3's case: a label came twice and the corpus holds it once
C3_Witness ==
  /\ ldPc = "loop"
  /\ \E l \in Labels :
       /\ occ[l] = 2
       /\ l \notin fresh
       /\ Cardinality({i \in 1..Len(units) : units[i].describe = l}) = 1

\* mergeUnits(C, C) was called on a corpus C of distinct labels
SelfMerged ==
  /\ mgPc = "done"
  /\ argA = argB
  /\ \A i, j \in 1..Len(argA) : argA[i].describe = argA[j].describe => i = j

\* C4: mergeUnits(C, C) equals C in its units, their order, the set of test names of
\* each unit and the content of every test.
C4_MergeIdempotent ==
  SelfMerged =>
    /\ Len(out) = Len(argA)
    /\ \A i \in 1..Len(argA) :
         /\ out[i].describe = argA[i].describe
         /\ NamesOf(out[i].tests) = NamesOf(argA[i].tests)
         /\ Range(out[i].tests) = Range(argA[i].tests)

\* C5 as stated: the corpus lists the labels in the order of their first appearance,
\* and a unit whose label is present in only one document is in the corpus as the
\* document gave it (followed for the latest document and a label's first two units).
C5_AsStated ==
  ldPc = "loop" =>
    /\ LabelsOf(units) = seenLabels
    /\ \A l \in fresh : keeps[l]

\* C5, amended: the corpus lists the labels in the order of their first appearance
\* over all documents, and a unit whose label occurs once over all documents is in
\* the folded corpus exactly as its document gave it.
C5_FirstAppearanceOrder ==
  /\ ldPc \in {"loop", "done"} => LabelsOf(units) = seenLabels
  /\ ldPc = "loop" => \A l \in Labels : occ[l] = 1 => UnitOf(units, l) = sole[l]

\* C5's case: the first label was merged into by a later document and stayed first,
\* the second label came once with two tests of one name
C5_Witness ==
  /\ ldPc = "loop"
  /\ Len(units) = 2
  /\ occ[units[1].describe] = 2
  /\ units[1].describe \notin fresh
  /\ units[2].describe \in fresh
  /\ occ[units[2].describe] = 1
  /\ Len(units[2].tests) = 2
  /\ ~NoDuplicateNames(units[2].tests)

(***************************************************************************)
(* Claims about the adapter.                                               *)
(***************************************************************************)
\* the search chain the caller asked for: the given directories, then the cache
SearchChain == givenDirs \o <<CacheStyleModules>>
Readable(d) == files[d].ok
YieldsContent(d) == files[d].ok /\ files[d].text # ""
\* the directories read are the chain in its order, the cache directory read last
\* (and possibly again)
SearchedInChainOrder ==
  /\ \A i \in 1..Len(searched) :
       searched[i] = IF i <= Len(givenDirs) THEN givenDirs[i] ELSE CacheStyleModules
\* the call returned the text of the directory at position i of the chain
ReturnsTextOf(i) == sysRet = JsString(files[SearchChain[i]].text)

\* C6 as stated: on every call, retrieveStyleModule reads the caller's directories in
\* the given order and the cache directory last, and returns the content of the first
\* directory of that order whose file is readable; a failing read is skipped.
C6_AsStated ==
  sysLast = "retrieveStyleModule" =>
    /\ ~sysRaised
    /\ SearchedInChainOrder
    /\ \A i \in 1..Len(SearchChain) :
         (Readable(SearchChain[i]) /\ \A j \in 1..(i - 1) : ~Readable(SearchChain[j]))
           => ReturnsTextOf(i)

\* C6, amended: as C6, but the directory whose content is returned is the first one
\* whose file is readable and not empty (an empty file is skipped like a failing
\* read), and the search reads no directory after it.
C6_FirstContentWins ==
  sysLast = "retrieveStyleModule" =>
    /\ ~sysRaised
    /\ SearchedInChainOrder
    /\ \A i \in 1..Len(SearchChain) :
         (YieldsContent(SearchChain[i]) /\ \A j \in 1..(i - 1) : ~YieldsContent(SearchChain[j]))
           => (ReturnsTextOf(i) /\ Len(searched) = i)

\* C6's case: a second call on the same adapter, d1 lacks the file and d2 has it
C6_Witness ==
  /\ sysLast = "retrieveStyleModule"
  /\ sysCalls = 2
  /\ Len(jurisdictionDirs) > Len(givenDirs) + 1
  /\ givenDirs = <<"d1", "d2">>
  /\ ~Readable("d1")
  /\ YieldsContent("d2")
  /\ YieldsContent(CacheStyleModules)
  /\ sysRet = JsString("d2")

\* C7: when no directory of the chain yields content, retrieveStyleModule returns a
\* falsy value and does not throw.
C7_NotFoundIsFalsy ==
  (sysLast = "retrieveStyleModule" /\ \A i \in 1..Len(SearchChain) : ~YieldsContent(SearchChain[i]))
    => (Falsy(sysRet) /\ ~sysRaised /\ Len(searched) = Len(jurisdictionDirs))

\* C7's case: three directories, failing reads and an empty file among them
C7_Witness ==
  /\ sysLast = "retrieveStyleModule"
  /\ givenDirs = <<"d2", "d1">>
  /\ ~Readable("d2")
  /\ Readable("d1")
  /\ ~Readable(CacheStyleModules)
  /\ \A i \in 1..Len(SearchChain) : ~YieldsContent(SearchChain[i])
  /\ sysRet = JsString("")

\* C8: retrieveLocale, retrieveItem and retrieveStyleModule only read: no call changes
\* the adapter's state, and the list of jurisdiction directories stays as long as it
\* was before the first call.
C8_CallbacksOnlyRead ==
  [][jurisdictionDirs' = jurisdictionDirs /\ sysCitations' = sysCitations]_vars

(***************************************************************************)
(* Claims about the abbreviation store.                                    *)
(***************************************************************************)
JurisdictionOf(set) == IF set.jurisdiction = "" THEN "default" ELSE set.jurisdiction
\* the entries the latest call supplied: <<i, c, n>> is entry n of category c of set i
Supplied ==
  UNION {{<<i, c, n>> : n \in 1..Len(lastSets.list[i][c])} :
           i \in 1..Len(lastSets.list), c \in Categories}
SuppliedJurisdiction(w) == JurisdictionOf(lastSets.list[w[1]])
SuppliedKey(w) == NormalizedLookupKey(lastSets.list[w[1]][w[2]][w[3]][1])
SuppliedValue(w) == lastSets.list[w[1]][w[2]][w[3]][2]
\* w2 is applied after w and writes the same slot
Overwrites(w2, w) ==
  /\ SuppliedJurisdiction(w2) = SuppliedJurisdiction(w)
  /\ w2[2] = w[2]
  /\ SuppliedKey(w2) = SuppliedKey(w)
  /\ (w2[1] > w[1] \/ (w2[1] = w[1] /\ w2[3] > w[3]))

\* C9: after any sequence of render calls the abbreviation store holds "default" and
\* the entries the latest call's configuration supplied, nothing else, and the cache
\* object the engine holds has no entry that the store does not have: nothing an
\* earlier call added is left, also when the latest call had no configuration.
C9_NoStaleAbbreviation ==
  teCaller # "none" =>
    /\ DOMAIN abbreviations = {"default"} \cup {SuppliedJurisdiction(w) : w \in Supplied}
    /\ \A j \in DOMAIN abbreviations :
         /\ DOMAIN abbreviations[j] = Categories
         /\ \A c \in Categories :
              abbreviations[j][c] =
                {<<SuppliedKey(w), SuppliedValue(w)>> :
                   w \in {x \in Supplied :
                            /\ SuppliedJurisdiction(x) = j
                            /\ x[2] = c
                            /\ \A y \in Supplied : ~Overwrites(y, x)}}
    /\ sysAbbreviationCache # "null" =>
         \A j \in DOMAIN heap["engine"] :
           /\ j \in DOMAIN abbreviations
           /\ \A c \in Categories : heap["engine"][j][c] \subseteq abbreviations[j][c]

\* C9's case: an earlier call added jurisdiction "us" and the engine cached an entry of
\* it; the latest call had no configuration and has returned
C9_Witness ==
  /\ tePc = "idle"
  /\ teCaller # "none"
  /\ ~lastSets.given
  /\ "us" \in staleJurs
  /\ staleCache
  /\ abbreviations = DefaultOnly
  /\ heap["engine"] = DefaultOnly

\* C10: once the engine has handed over its cache object, every reset keeps that
\* object, and right after the reset the object holds "default" alone, with every
\* category present and empty.
C10_CacheClearedInPlace ==
  /\ sysAbbreviationCache \in {"null", "engine"}
  /\ (tePc = "reset" /\ sysAbbreviationCache # "null") =>
       /\ DOMAIN heap[sysAbbreviationCache] = {"default"}
       /\ DOMAIN heap[sysAbbreviationCache]["default"] = Categories
       /\ \A c \in Categories : heap[sysAbbreviationCache]["default"][c] = {}
       /\ heap["engine"] = heap[sysAbbreviationCache]

\* C10's case: the engine's object held an entry of another jurisdiction, and a reset
\* has just run
C10_Witness ==
  /\ tePc = "reset"
  /\ sysAbbreviationCache = "engine"
  /\ staleCache
  /\ lastSets.given
  /\ Len(lastSets.list) > 0

(***************************************************************************)
(* Claims about ensureCachedRepos.                                         *)
(***************************************************************************)
\* how often operation op was performed on source s
OpCount(s, op) == Cardinality({i \in 1..Len(rcLog) : rcLog[i][1] = s /\ rcLog[i][2] = op})
OpsOn(s) == {i \in 1..Len(rcLog) : rcLog[i][1] = s}
\* the promise of ensureCachedRepos is settled
Settled == rcResult[1] \in {"resolved", "rejected"}
\* cloneOrPull was started on s and has ended
Ended(s) == rcStep[s] \in {"done", "failed"}
\* a fetch or a merge of s failed
PullFailed(s) ==
  \E i \in OpsOn(s) : rcLog[i][2] \in {"fetch", "merge"} /\ ~rcLog[i][3]

\* C11 as stated: once ensureCachedRepos(false) has settled, every source whose local
\* copy was absent has had exactly one clone, no fetch and no merge.
C11_AsStated ==
  (Settled /\ ~rcPull) =>
    \A s \in SourceSet : rcCopy0[s] = "absent" =>
      OpCount(s, "clone") = 1 /\ OpCount(s, "fetch") = 0 /\ OpCount(s, "merge") = 0

\* C11, amended: under ensureCachedRepos(false), every source whose local copy was
\* absent and on which cloneOrPull ran to its end has had exactly one clone, no fetch
\* and no merge; a source the chain never reached has had no operation at all.
C11_OneCloneWhenAbsent ==
  ~rcPull =>
    \A s \in SourceSet :
      /\ (rcCopy0[s] = "absent" /\ Ended(s)) =>
           OpCount(s, "clone") = 1 /\ OpCount(s, "fetch") = 0 /\ OpCount(s, "merge") = 0
      /\ rcStep[s] \in {"idle", "waiting"} => OpsOn(s) = {}

C11_Witness ==
  /\ rcResult = <<"resolved">>
  /\ ~rcPull
  /\ \A s \in SourceSet : rcCopy0[s] = "absent" /\ OpCount(s, "clone") = 1

\* C12: under shouldPull = false a source whose local copy is present (it exists and
\* opens) gets no fetch, no merge, no clone and no remove, and its copy stays as it was.
C12_NoNetworkWithoutRefresh ==
  ~rcPull =>
    \A s \in SourceSet : rcCopy0[s] = "present" =>
      /\ \A i \in OpsOn(s) : rcLog[i][2] = "open" /\ rcLog[i][3]
      /\ rcCopy[s] = "present"

C12_Witness ==
  /\ rcResult = <<"resolved">>
  /\ ~rcPull
  /\ \A s \in SourceSet : rcCopy0[s] = "present" /\ OpCount(s, "open") = 1

\* C13 as stated: with shouldPull = true and a copy that opened, a failed fetch or
\* merge is followed by the removal of the copy and then exactly one clone; when both
\* succeed there is no removal and no clone.
C13_AsStated ==
  rcPull =>
    \A s \in SourceSet : (rcCopy0[s] = "present" /\ Ended(s)) =>
      IF PullFailed(s)
        THEN /\ \E i \in OpsOn(s) : rcLog[i] = <<s, "remove", TRUE>>
             /\ OpCount(s, "clone") = 1
        ELSE OpCount(s, "remove") = 0 /\ OpCount(s, "clone") = 0

\* C13, amended: with shouldPull = true and a copy that opened, a failed fetch or merge
\* is followed by exactly one attempt to remove the copy; when the removal succeeds
\* exactly one clone follows it, when it fails no clone is made and the chain is
\* rejected with the removal's failure.  When fetch and merge both succeed there is
\* no removal and no clone.
C13_PullFailureFallsBackToClone ==
  rcPull =>
    \A s \in SourceSet : (rcCopy0[s] = "present" /\ Ended(s)) =>
      IF PullFailed(s)
        THEN /\ OpCount(s, "remove") = 1
             /\ \E f \in OpsOn(s), r \in OpsOn(s) :
                  /\ rcLog[f][2] \in {"fetch", "merge"} /\ ~rcLog[f][3]
                  /\ rcLog[r][2] = "remove"
                  /\ r = f + 1
                  /\ IF rcLog[r][3]
                       THEN /\ OpCount(s, "clone") = 1
                            /\ Len(rcLog) > r /\ rcLog[r + 1][1] = s /\ rcLog[r + 1][2] = "clone"
                       ELSE /\ OpCount(s, "clone") = 0
                            /\ rcResult = <<"rejected", s, "remove">>
        ELSE OpCount(s, "remove") = 0 /\ OpCount(s, "clone") = 0

C13_Witness ==
  /\ rcPull
  /\ rcResult = <<"resolved">>
  /\ rcCopy0[Sources[1]] = "present" /\ rcCopy0[Sources[2]] = "present"
  /\ \E i \in OpsOn(Sources[1]) : rcLog[i] = <<Sources[1], "merge", FALSE>>
  /\ OpCount(Sources[1], "clone") = 1
  /\ \E i \in OpsOn(Sources[2]) : rcLog[i] = <<Sources[2], "merge", TRUE>>
  /\ OpCount(Sources[2], "clone") = 0

\* C14: the sources are handled one after the other: no operation on the second
\* source is performed before cloneOrPull on the first has ended well, and no
\* operation on the first follows one on the second.
C14_SourcesInSequence ==
  /\ \A i \in 1..Len(rcLog), j \in 1..Len(rcLog) :
       (rcLog[i][1] = Sources[2] /\ rcLog[j][1] = Sources[1]) => j < i
  /\ (rcStep[Sources[2]] \notin {"idle", "waiting"}) => rcStep[Sources[1]] = "done"

C14_Witness ==
  /\ Settled
  /\ Cardinality(OpsOn(Sources[1])) >= 3
  /\ Cardinality(OpsOn(Sources[2])) >= 3

\* C15: a failed clone is fatal: the promise of ensureCachedRepos is rejected with
\* that failure, no source is cloned more than once, and nothing is done after the
\* failed clone, the later source being left untouched.
C15_CloneFailureIsFatal ==
  /\ \A s \in SourceSet : OpCount(s, "clone") <= 1
  /\ \A i \in 1..Len(rcLog) : (rcLog[i][2] = "clone" /\ ~rcLog[i][3]) =>
       /\ i = Len(rcLog)
       /\ rcResult = <<"rejected", rcLog[i][1], "clone">>
       /\ Following(rcLog[i][1]) # "none" =>
            /\ OpsOn(Following(rcLog[i][1])) = {}
            /\ rcStep[Following(rcLog[i][1])] = "waiting"

C15_Witness ==
  /\ rcResult = <<"rejected", Sources[1], "clone">>
  /\ OpsOn(Sources[2]) = {}

(***************************************************************************)
(* Claims about produceSequence and produceSingle.                         *)
(***************************************************************************)
\* the rendered text the engine gives for a cluster
RenderedText(cluster) == <<"text of", cluster>>

\* C20: when the engine is at work the store has been reset and holds the sets of the
\* call; the engine is handed the clusters in input order, the i-th (counted from 1)
\* with citation identifier "CITATION-i" and note index i; produceSequence returns one
\* text per cluster in input order, and produceSingle(item) the first text of the
\* sequence [[item]].
C20_ClustersInOrder ==
  /\ tePc \in {"reset", "rendering"} =>
       /\ abbreviations = ApplySets(DefaultOnly, lastSets)
       /\ Len(engineInput) = Len(teClusters)
       /\ \A i \in 1..Len(teClusters) :
            /\ engineInput[i].citationID = <<"CITATION-", i>>
            /\ engineInput[i].properties.noteIndex = i
            /\ engineInput[i].citationItems = teClusters[i]
  /\ (tePc = "idle" /\ teCaller = "sequence") =>
       /\ Len(teOut) = Len(teClusters)
       /\ \A i \in 1..Len(teClusters) : teOut[i] = RenderedText(teClusters[i])
  /\ (tePc = "idle" /\ teCaller = "single") =>
       /\ Len(teClusters) = 1 /\ Len(teClusters[1]) = 1
       /\ teOut = RenderedText(teClusters[1])

C20_Witness ==
  /\ tePc = "idle"
  /\ teCaller = "sequence"
  /\ Len(teClusters) = 2
  /\ teClusters[1] # teClusters[2]
  /\ teOut = <<RenderedText(teClusters[1]), RenderedText(teClusters[2])>>
  /\ lastSets.given /\ lastSets.list # <<>>

(***************************************************************************)
(* Claims about insertMissingPageLabels.                                   *)
(***************************************************************************)
\* the output item is the input item, given the label "page" when it has a locator
\* and no label (an empty label counts as none), and otherwise untouched
Backfilled(before, after) ==
  IF TruthyField(before, "locator") /\ ~TruthyField(before, "label")
    THEN after = With(before, "label", "page")
    ELSE after = before

\* C18: after insertMissingPageLabels every item with a locator, the single item as
\* well as every item of every cluster of the sequence, has a label: "page" when it
\* had none, and a label the item came with is left as it was.
C18_LocatorsGetLabels ==
  lbPc = "done" =>
    /\ Has(lbTest, "single") =>
         Has(lbOut, "single") /\ Backfilled(lbTest.single, lbOut.single)
    /\ Has(lbTest, "sequence") =>
         /\ Has(lbOut, "sequence")
         /\ Len(lbOut.sequence) = Len(lbTest.sequence)
         /\ \A i \in 1..Len(lbTest.sequence) :
              /\ Len(lbOut.sequence[i]) = Len(lbTest.sequence[i])
              /\ \A j \in 1..Len(lbTest.sequence[i]) :
                   Backfilled(lbTest.sequence[i][j], lbOut.sequence[i][j])

(***************************************************************************)
(* Claims about jestCSL and the load of the corpus.                        *)
(***************************************************************************)
\* the test cases of a corpus in order, each with the label of its unit
RECURSIVE CorpusTests(_)
CorpusTests(us) ==
  IF us = <<>> THEN <<>>
  ELSE CorpusTests(Front(us)) \o
       [i \in 1..Len(Last(us).tests) |->
          [describe |-> Last(us).describe, test |-> Last(us).tests[i]]]

\* how the claim has a test case registered
ClaimedAs(itProps, test) ==
  IF ~Has(test, "expect") THEN "skip"
  ELSE IF Has(test, "mode") /\ test.mode \in {"skip", "only"} /\ test.mode \in itProps
    THEN test.mode
  ELSE "it"

\* C16: once jestCSL has returned, jest holds exactly one test per test case of the
\* corpus, in order and under the test's name; a test case with an expect is
\* registered to run, or as skip / only when that is its mode and jest's it has the
\* mode, and a test case without expect is registered as skipped.
C16_OneTestPerCase ==
  brPc = "registered" =>
    LET cases == CorpusTests(brUnits)
    IN /\ Len(brRegistry) = Len(cases)
       /\ \A i \in 1..Len(cases) :
            /\ brRegistry[i].describe = cases[i].describe
            /\ brRegistry[i].it = cases[i].test.it
            /\ brRegistry[i].as = ClaimedAs(brIt, cases[i].test)

\* C17: when args.suites expands to no file, jestCSL ends with the error "no suites
\* provided", raised before readTestUnits has produced a corpus and before any test
\* is registered or run.
C17_NoSuitesFailsAtLoad ==
  (brJest /\ brPc # "start" /\ expandGlobs(brSuites, brFiles) = <<>>) =>
    /\ brPc = "exited"
    /\ brError = NoSuitesProvided
    /\ ~brLoaded
    /\ brRegistry = <<>> /\ brRan = <<>>

\* the units of the documents that readTestUnits read, in order
RECURSIVE UnitsRead(_, _)
UnitsRead(suiteFiles, fs) ==
  IF suiteFiles = <<>> THEN <<>>
  ELSE (IF fs[suiteFiles[1]].isArray THEN fs[suiteFiles[1]].items ELSE <<>>)
       \o UnitsRead(Tail(suiteFiles), fs)

\* the fields of units and of test cases that merge and normalisation deal with
UnitFields == {"describe", "tests"}
NormalizedFields == {"expect", "single", "sequence"}

\* C19: the corpus readTestUnits returns loses no field: every unit read keeps, in
\* the corpus unit of its label, each field other than describe and tests with its
\* value, and every test case of the corpus has the fields, other than those that
\* normalisation covers, of a test case of that name read for that label.
C19_NoFieldLost ==
  brLoaded =>
    LET read == UnitsRead(expandGlobs(brSuites, brFiles), brFiles)
    IN /\ \A i \in 1..Len(read) :
            LET o == UnitOf(brUnits, read[i].describe)
            IN \A f \in (DOMAIN read[i]) \ UnitFields : Has(o, f) /\ o[f] = read[i][f]
       /\ \A k \in 1..Len(brUnits) : \A n \in 1..Len(brUnits[k].tests) :
            LET t == brUnits[k].tests[n]
            IN \E i \in 1..Len(read) : \E m \in 1..Len(read[i].tests) :
                 /\ read[i].describe = brUnits[k].describe
                 /\ read[i].tests[m].it = t.it
                 /\ \A f \in (DOMAIN read[i].tests[m]) \ NormalizedFields :
                      Has(t, f) /\ t[f] = read[i].tests[m][f]
====
